---- MODULE Spec2Model ----
(***************************************************************************)
(* MongoDBMemoryStore: the connector of                                    *)
(* python/semantic_kernel/connectors/memory/mongodb/mongodb_memory_store.py*)
(* as a state machine over one MongoDB database.  The database (pymongo)   *)
(* is the environment: a collection is a set of documents with a unique    *)
(* index on "_id", created implicitly by the first write to it.            *)
(***************************************************************************)
EXTENDS Integers, Sequences, FiniteSets, TLC

VARIABLES store, database, last, callers

vars == <<store, database, last, callers>>

----------------------------------------------------------------------------
\* Bounds of the model.

\* Longest list of records handed to upsert_batch_async.
MaxBatch == 3
\* Longest list of keys handed to get_batch_async / remove_batch_async.
MaxKeys == 2
\* Largest `limit` handed to get_nearest_matches_async.
MaxLimit == 2
\* Largest batch_size a store is constructed with.
MaxBatchSize == 2
\* utils.DEFAULT_INSERT_BATCH_SIZE, imported at line 14; utils.py sets its
\* value, the model takes a small one so that a batch fills the buffer.
DEFAULT_INSERT_BATCH_SIZE == 2

\* Python's None (also a record without an id, a name left unspecified).
None == "None"

CollNames == {"c1"}
\* Ids callers give to their records, and the values uuid.uuid4() produces.
Ids == {"a", "b"}
GenIds == {"u1"}
AllIds == Ids \cup GenIds
\* Embeddings are vectors of vector_size = 1 numbers.
Embeddings == {<<0>>, <<1>>}
Texts == {"p"}
ApiTypes == {"azuremongodb", "mongodbatlas"}
IndexNames == {"vectorSearchIndex", "myIndex"}
\* What a constructor argument can be: unspecified (None) or a name; the
\* embedding key can also be the empty string.
EmbeddingKeys == {None, "", "embedding"}
DatabaseNames == {None, "db"}
CollectionArgs == {None} \cup CollNames
VectorSizes == {-1, 0, 1}
Callers == {"t1", "t2"}

\* MemoryRecord: _id (None when the caller gave none), embedding, payload.
MemoryRecords == [_id : Ids \cup {None}, _embedding : Embeddings, _text : Texts]

\* All sequences over S of length at most n.
SeqsUpTo(S, n) == UNION {[1..k -> S] : k \in 0..n}

----------------------------------------------------------------------------
\* utils.py: the id field and the record <-> document mapping.

SEARCH_FIELD_ID == "_id"

memory_record_to_mongodb_record(record, embedding_key) ==
    (SEARCH_FIELD_ID :> record._id) @@ (embedding_key :> record._embedding)
        @@ ("text" :> record._text)

dict_to_memory_record(doc, embedding_key) ==
    [_id |-> doc[SEARCH_FIELD_ID], _embedding |-> doc[embedding_key], _text |-> doc["text"]]

----------------------------------------------------------------------------
\* The driver (pymongo) calls the connector issues on one collection.
\* A collection is [exists, indexes, docs]; docs is a set of documents.

NoCollection == [exists |-> FALSE, indexes |-> {}, docs |-> {}]

Matching(coll, id) == {d \in coll.docs : d[SEARCH_FIELD_ID] = id}

RECURSIVE SetToSeq(_)
SetToSeq(S) ==
    IF S = {} THEN <<>>
    ELSE LET x == CHOOSE y \in S : TRUE IN <<x>> \o SetToSeq(S \ {x})

\* collection.find(query): a cursor over the matching documents.
find(coll, id) == SetToSeq(Matching(coll, id))

\* collection.find_one(query): <<>> stands for None.
find_one(coll, id) ==
    IF Matching(coll, id) = {} THEN <<>> ELSE <<CHOOSE d \in Matching(coll, id) : TRUE>>

\* collection.update_one(filter, {"$set": fields}): the first match gets the fields.
update_one(coll, id, fields) ==
    IF Matching(coll, id) = {} THEN coll
    ELSE LET d == CHOOSE e \in Matching(coll, id) : TRUE
         IN [coll EXCEPT !.docs = (@ \ {d}) \cup {fields @@ d}]

\* collection.delete_one(filter): the first match is deleted.
delete_one(coll, id) ==
    IF Matching(coll, id) = {} THEN coll
    ELSE LET d == CHOOSE e \in Matching(coll, id) : TRUE
         IN [coll EXCEPT !.docs = @ \ {d}]

\* collection.insert_many(documents), ordered: documents are inserted one by
\* one, the first whose _id is already stored raises BulkWriteError and ends
\* the call.  The first write creates the collection.
RECURSIVE insert_from(_, _, _, _)
insert_from(coll, documents, i, ids) ==
    IF i > Len(documents) THEN [coll |-> coll, inserted_ids |-> ids, err |-> ""]
    ELSE IF Matching(coll, documents[i][SEARCH_FIELD_ID]) # {}
         THEN [coll |-> coll, inserted_ids |-> ids, err |-> "BulkWriteError"]
         ELSE insert_from([coll EXCEPT !.exists = TRUE, !.docs = @ \cup {documents[i]}],
                          documents, i + 1, Append(ids, documents[i][SEARCH_FIELD_ID]))

insert_many(coll, documents) == insert_from(coll, documents, 1, <<>>)

\* collection.drop()
drop(coll) == NoCollection

----------------------------------------------------------------------------
\* upsert_batch_async.  Its locals are one record st: the collection as the
\* calls so far left it, the records (an id-less one gets uuid4()'s next
\* value), the pending-insert buffer, the ids insert_many returned, the
\* driver calls issued and the exception that ended the call ("" for none).

Call(name, ids) == [call |-> name, ids |-> ids]

DocIds(documents) == [i \in 1..Len(documents) |-> documents[i][SEARCH_FIELD_ID]]

UpsertStart(coll, records) ==
    [coll |-> coll, records |-> records, u |-> 0, mongodb_records |-> <<>>,
     inserted_ids |-> <<>>, calls |-> <<>>, err |-> ""]

\* lines 232-233: record i gets an id when it has none.
AssignId(st, i, uuids) ==
    IF st.records[i]._id = None
    THEN [st EXCEPT !.records[i]._id = uuids[st.u + 1], !.u = @ + 1]
    ELSE st

\* lines 256-258 and 261-262: one insert_many call with the whole buffer.
FlushBuffer(st) ==
    LET r == insert_many(st.coll, st.mongodb_records)
    IN [st EXCEPT !.coll = r.coll,
                  !.calls = Append(@, Call("insert_many", DocIds(st.mongodb_records))),
                  !.err = r.err,
                  !.inserted_ids = IF r.err = "" THEN @ \o r.inserted_ids ELSE @,
                  !.mongodb_records = IF r.err = "" THEN <<>> ELSE @]

\* A faulty variant: the id of an updated document is reported as inserted.
UpdateExisting_ReportsId(st, record, embedding_key) ==
    [st EXCEPT !.coll = update_one(@, record._id,
                                   memory_record_to_mongodb_record(record, embedding_key)),
               !.calls = Append(@, Call("update_one", <<record._id>>)),
               !.inserted_ids = Append(@, record._id)]

\* lines 237-248: the document exists, its fields are set.
UpdateExisting(st, record, embedding_key) ==
    [st EXCEPT !.coll = update_one(@, record._id,
                                   memory_record_to_mongodb_record(record, embedding_key)),
               !.calls = Append(@, Call("update_one", <<record._id>>))]

\* lines 249-258: the document is buffered; a full buffer is flushed.
BufferInsert(st, record, embedding_key) ==
    LET st1 == [st EXCEPT !.mongodb_records =
                    Append(@, memory_record_to_mongodb_record(record, embedding_key))]
    IN IF Len(st1.mongodb_records) = DEFAULT_INSERT_BATCH_SIZE THEN FlushBuffer(st1) ELSE st1

\* line 235: the existence check.
FindExisting(st, record) ==
    [st EXCEPT !.calls = Append(@, Call("find_one", <<record._id>>))]

\* lines 231-258: one iteration of the loop.
UpsertRecord(st0, i, embedding_key, uuids) ==
    LET st1 == AssignId(st0, i, uuids)
        record == st1.records[i]
        existing_document == find_one(st1.coll, record._id)
        st2 == FindExisting(st1, record)
    IN IF existing_document # <<>>
       THEN UpdateExisting(st2, record, embedding_key)
       ELSE BufferInsert(st2, record, embedding_key)

RECURSIVE upsert_loop(_, _, _, _)
upsert_loop(st, i, embedding_key, uuids) ==
    IF i > Len(st.records) \/ st.err # "" THEN st
    ELSE upsert_loop(UpsertRecord(st, i, embedding_key, uuids), i + 1, embedding_key, uuids)

\* lines 228-264.  The returned list is inserted_ids (when err = "").
upsert_batch_async(coll, records, embedding_key, uuids) ==
    LET st == upsert_loop(UpsertStart(coll, records), 1, embedding_key, uuids)
    IN IF st.err = "" /\ st.mongodb_records # <<>> THEN FlushBuffer(st) ELSE st

\* lines 209-212: the first id of the one-record batch, or None.
upsert_async(coll, record, embedding_key, uuids) ==
    LET st == upsert_batch_async(coll, <<record>>, embedding_key, uuids)
    IN [st |-> st,
        ret |-> IF st.err = "" /\ st.inserted_ids # <<>> THEN st.inserted_ids[1] ELSE None]

----------------------------------------------------------------------------
\* Retrieval and deletion.

MapRecords(documents, embedding_key) ==
    [i \in 1..Len(documents) |-> dict_to_memory_record(documents[i], embedding_key)]

\* lines 277-281: the first document of the cursor, <<>> for None.
get_async(coll, key, embedding_key) ==
    LET cursor == find(coll, key)
    IN IF cursor = <<>> THEN <<>> ELSE <<dict_to_memory_record(cursor[1], embedding_key)>>

\* A faulty variant: the loop ends at the first key that is not stored.
RECURSIVE get_batch_async_StopsAtMissing(_, _, _)
get_batch_async_StopsAtMissing(coll, keys, embedding_key) ==
    IF keys = <<>> \/ find(coll, Head(keys)) = <<>> THEN <<>>
    ELSE MapRecords(find(coll, Head(keys)), embedding_key)
             \o get_batch_async_StopsAtMissing(coll, Tail(keys), embedding_key)

\* lines 286-297
RECURSIVE get_batch_async(_, _, _)
get_batch_async(coll, keys, embedding_key) ==
    IF keys = <<>> THEN <<>>
    ELSE MapRecords(find(coll, Head(keys)), embedding_key)
             \o get_batch_async(coll, Tail(keys), embedding_key)

\* A faulty variant: the loop ends at the first key that is not stored.
RECURSIVE remove_batch_async_StopsAtMissing(_, _)
remove_batch_async_StopsAtMissing(coll, keys) ==
    IF keys = <<>> \/ find(coll, Head(keys)) = <<>> THEN coll
    ELSE remove_batch_async_StopsAtMissing(delete_one(coll, Head(keys)), Tail(keys))

\* lines 309-312
RECURSIVE remove_batch_async(_, _)
remove_batch_async(coll, keys) ==
    IF keys = <<>> THEN coll
    ELSE remove_batch_async(delete_one(coll, Head(keys)), Tail(keys))

\* lines 315-317
remove_async(coll, key) == delete_one(coll, key)

----------------------------------------------------------------------------
\* Similarity search.  The pipeline is built by utils.py and run by the
\* database: the k documents nearest to the query vector, nearest first.

get_azuremongodb_similarity_query(embeddings, embedding_key, limit) ==
    [stage |-> "$search", vector |-> embeddings, path |-> embedding_key, k |-> limit]

get_mongodbatlas_similarity_query(embeddings, embedding_key, collection_name, limit) ==
    [stage |-> "$vectorSearch", vector |-> embeddings, path |-> embedding_key, k |-> limit]

Distance(e, q) == IF e[1] >= q[1] THEN e[1] - q[1] ELSE q[1] - e[1]

RECURSIVE Ranked(_, _, _)
Ranked(S, q, path) ==
    IF S = {} THEN <<>>
    ELSE LET best == CHOOSE d \in S :
                        \A e \in S : Distance(d[path], q) <= Distance(e[path], q)
         IN <<best>> \o Ranked(S \ {best}, q, path)

\* collection.aggregate(search_pipeline)
aggregate(coll, pipeline) ==
    LET ranked == Ranked(coll.docs, pipeline.vector, pipeline.path)
    IN SubSeq(ranked, 1, IF Len(ranked) < pipeline.k THEN Len(ranked) ELSE pipeline.k)

\* A faulty variant: the query asks the database for one match too many.
get_nearest_matches_async_OneMore(coll, self, collection_name, embedding, limit) ==
    MapRecords(aggregate(coll, get_azuremongodb_similarity_query(
                                   embedding, self._embedding_key, limit + 1)),
               self._embedding_key)

\* lines 352-371
get_nearest_matches_async(coll, self, collection_name, embedding, limit) ==
    LET search_pipeline ==
            IF self._api_type = "azuremongodb"
            THEN get_azuremongodb_similarity_query(embedding, self._embedding_key, limit)
            ELSE get_mongodbatlas_similarity_query(embedding, self._embedding_key,
                                                   collection_name, limit)
    IN MapRecords(aggregate(coll, search_pipeline), self._embedding_key)

\* lines 322-329: the first of the matches for limit = 1, <<>> for None.
get_nearest_match_async(coll, self, collection_name, embedding) ==
    LET memory_records == get_nearest_matches_async(coll, self, collection_name, embedding, 1)
    IN IF Len(memory_records) > 0 THEN <<memory_records[1]>> ELSE <<>>

----------------------------------------------------------------------------
\* Collection and index administration.

\* line 99: the default of num_lists.
DEFAULT_NUM_LISTS == 100

Similarities == {"COS", "L2"}

\* lines 193-196
does_collection_exist_async(db, collection_name) == db[collection_name].exists

\* line 179: `index_name in collection.list_indexes()` compares the name with
\* each index document of the cursor; a document is never equal to a string.
NameEqualsDocument(index_name, ix) == FALSE

\* lines 178-182
does_index_exist_async(db, collection_name, index_name) ==
    IF \E ix \in db[collection_name].indexes : NameEqualsDocument(index_name, ix)
    THEN TRUE
    ELSE FALSE

\* lines 122-138: the createIndexes command; the database creates the
\* collection with the index when the collection is absent.
CosmosVectorIndex(self, similarity, num_lists) ==
    [name |-> "vectorSearchIndex", key |-> self._embedding_key, kind |-> "vector-ivf",
     numLists |-> num_lists, similarity |-> similarity, dimensions |-> self._vector_size]

\* A faulty variant: the Cosmos branch does not look whether the collection exists.
create_collection_async_NoExistenceCheck(db, self, collection_name, similarity, num_lists) ==
    IF self._api_type = "azuremongodb"
    THEN [db EXCEPT ![collection_name].exists = TRUE,
                    ![collection_name].indexes =
                        @ \cup {CosmosVectorIndex(self, similarity, num_lists)}]
    ELSE IF ~does_collection_exist_async(db, collection_name)
         THEN [db EXCEPT ![collection_name].exists = TRUE]
         ELSE db

\* lines 120-144
create_collection_async(db, self, collection_name, similarity, num_lists) ==
    IF self._api_type = "azuremongodb"
    THEN IF ~does_collection_exist_async(db, collection_name)
         THEN [db EXCEPT ![collection_name].exists = TRUE,
                         ![collection_name].indexes =
                             @ \cup {CosmosVectorIndex(self, similarity, num_lists)}]
         ELSE db
    ELSE IF self._api_type = "mongodbatlas"
         THEN IF ~does_collection_exist_async(db, collection_name)
              THEN [db EXCEPT ![collection_name].exists = TRUE]
              ELSE db
         ELSE db

\* lines 164-165
delete_collection_async(db, collection_name) ==
    [db EXCEPT ![collection_name] = drop(@)]

\* line 153
get_collections_async(db) == {c \in DOMAIN db : db[c].exists}

----------------------------------------------------------------------------
\* The store instance.  Before __init__ assigns them the attributes hold the
\* class defaults of lines 39-47 (None; 0 stands for None in a number).

ClassDefaults ==
    [_mongodb_client |-> None, _database |-> None, _api_type |-> None,
     _collection |-> None, _index_name |-> None, _embedding_key |-> None,
     _vector_size |-> 0, batch_size |-> 0, constructed |-> FALSE]

\* lines 73-76: the condition of `if not self.does_index_exist_async(...)`.
\* The call is not awaited: its value is a coroutine object, which is true,
\* and the body of does_index_exist_async never runs.
IndexCheckValue(db, self, collection_name) == TRUE

\* A faulty variant: collection_name is not checked.
ValidateArgs_NoCollectionCheck(args) ==
    IF args.vector_size <= 0 THEN "ValueError: vector_size"
    ELSE IF args.embedding_key = None THEN "ValueError: embedding_key"
    ELSE IF args.database_name = None THEN "ValueError: database_name"
    ELSE ""

\* lines 61-71: the checks of the arguments; the exception raised, "" for none.
ValidateArgs(args) ==
    IF args.vector_size <= 0 THEN "ValueError: vector_size"
    ELSE IF args.embedding_key = None THEN "ValueError: embedding_key"
    ELSE IF args.database_name = None THEN "ValueError: database_name"
    ELSE IF args.collection_name = None THEN "ValueError: collection_name"
    ELSE ""

\* lines 61-88.  args: the constructor's arguments.  The result: the
\* instance's attributes, the exception ("" for none), the driver calls.
__init__(db, args) ==
    LET self == ClassDefaults
    IN IF ValidateArgs(args) # ""
       THEN [self |-> self, err |-> ValidateArgs(args), calls |-> <<>>]
       ELSE IF ~IndexCheckValue(db, self, args.collection_name)
            THEN [self |-> self, err |-> "ValueError: Index does not exist", calls |-> <<>>]
            ELSE [self |-> [self EXCEPT !._mongodb_client = "open",
                                        !._database = args.database_name,
                                        !._api_type = args.api_type,
                                        !._collection = args.collection_name,
                                        !._index_name = args.index_name,
                                        !._embedding_key = args.embedding_key,
                                        !._vector_size = args.vector_size,
                                        !.batch_size = args.batch_size,
                                        !.constructed = TRUE],
                  err |-> "", calls |-> <<>>]

\* lines 92-93
close_async(self) ==
    IF self._mongodb_client # None THEN [self EXCEPT !._mongodb_client = "closed"] ELSE self

ConstructorArgs ==
    [vector_size : VectorSizes, database_name : DatabaseNames, api_type : ApiTypes,
     embedding_key : EmbeddingKeys, collection_name : CollectionArgs,
     index_name : IndexNames, batch_size : 1..MaxBatchSize]

ValidArgs ==
    {a \in ConstructorArgs : /\ a.vector_size > 0
                             /\ a.embedding_key = "embedding"
                             /\ a.database_name = "db"
                             /\ a.collection_name \in CollNames}

----------------------------------------------------------------------------
\* The operations of a constructed store, each one whole call.  `last`
\* records the call: its arguments, the collection before it, what it
\* returned or raised, and the driver calls it issued.

Open == store.constructed /\ store._mongodb_client = "open"

\* No call is in progress and the result of the last one has been taken.
Idle == last.op = "idle" /\ \A t \in Callers : callers[t].pc = "idle"

\* The caller takes the result of the call.
Return ==
    /\ last.op # "idle"
    /\ last' = [op |-> "idle"]
    /\ UNCHANGED <<store, database, callers>>

StoredIds == UNION {{d[SEARCH_FIELD_ID] : d \in database[c].docs} : c \in CollNames}

\* What uuid.uuid4() returns for the id-less records of a batch: values
\* that are new, each different from the others.
NeedIds(records) == Cardinality({i \in DOMAIN records : records[i]._id = None})

FreshUuids(n) ==
    {u \in [1..n -> GenIds \ StoredIds] : \A i, j \in 1..n : u[i] = u[j] => i = j}

UpsertBatch(c, records, uuids) ==
    /\ Open /\ Idle
    /\ LET st == upsert_batch_async(database[c], records, store._embedding_key, uuids)
       IN /\ database' = [database EXCEPT ![c] = st.coll]
          /\ last' = [op |-> "upsert_batch", collection |-> c, records |-> records,
                      assigned |-> st.records, pre |-> database[c],
                      ret |-> IF st.err = "" THEN st.inserted_ids ELSE <<>>,
                      err |-> st.err, calls |-> st.calls]
    /\ UNCHANGED <<store, callers>>

Upsert(c, record, uuids) ==
    /\ Open /\ Idle
    /\ LET r == upsert_async(database[c], record, store._embedding_key, uuids)
       IN /\ database' = [database EXCEPT ![c] = r.st.coll]
          /\ last' = [op |-> "upsert", collection |-> c, record |-> record,
                      assigned |-> r.st.records[1], pre |-> database[c],
                      ret |-> r.ret, err |-> r.st.err, calls |-> r.st.calls]
    /\ UNCHANGED <<store, callers>>

Get(c, key) ==
    /\ Open /\ Idle
    /\ last' = [op |-> "get", collection |-> c, key |-> key, pre |-> database[c],
                ret |-> get_async(database[c], key, store._embedding_key)]
    /\ UNCHANGED <<store, database, callers>>

GetBatch(c, keys) ==
    /\ Open /\ Idle
    /\ last' = [op |-> "get_batch", collection |-> c, keys |-> keys, pre |-> database[c],
                ret |-> get_batch_async(database[c], keys, store._embedding_key)]
    /\ UNCHANGED <<store, database, callers>>

Remove(c, key) ==
    /\ Open /\ Idle
    /\ database' = [database EXCEPT ![c] = remove_async(@, key)]
    /\ last' = [op |-> "remove", collection |-> c, keys |-> <<key>>, pre |-> database[c]]
    /\ UNCHANGED <<store, callers>>

RemoveBatch(c, keys) ==
    /\ Open /\ Idle
    /\ database' = [database EXCEPT ![c] = remove_batch_async(@, keys)]
    /\ last' = [op |-> "remove_batch", collection |-> c, keys |-> keys, pre |-> database[c]]
    /\ UNCHANGED <<store, callers>>

GetNearestMatches(c, embedding, limit) ==
    /\ Open /\ Idle
    /\ last' = [op |-> "get_nearest_matches", collection |-> c, embedding |-> embedding,
                limit |-> limit, pre |-> database[c],
                ret |-> get_nearest_matches_async(database[c], store, c, embedding, limit)]
    /\ UNCHANGED <<store, database, callers>>

GetNearestMatch(c, embedding) ==
    /\ Open /\ Idle
    /\ last' = [op |-> "get_nearest_match", collection |-> c, embedding |-> embedding,
                limit |-> 1, pre |-> database[c],
                ret |-> get_nearest_match_async(database[c], store, c, embedding)]
    /\ UNCHANGED <<store, database, callers>>

----------------------------------------------------------------------------
\* Spec: one caller at a time uses a store that was constructed with valid
\* arguments on an empty database.

NoCall == [pc |-> "idle"]

InitStore ==
    \E a \in ValidArgs :
        a.index_name = "vectorSearchIndex" /\ store = __init__(database, a).self

Init ==
    /\ database = [c \in CollNames |-> NoCollection]
    /\ InitStore
    /\ last = [op |-> "idle"]
    /\ callers = [t \in Callers |-> NoCall]

\* Every call starts when the last one has returned; Idle is tested before
\* the arguments are drawn.
Next ==
    \/ /\ Idle
       /\ \E c \in CollNames, records \in SeqsUpTo(MemoryRecords, MaxBatch) :
              \E uuids \in FreshUuids(NeedIds(records)) : UpsertBatch(c, records, uuids)
    \/ /\ Idle
       /\ \E c \in CollNames, record \in MemoryRecords :
              \E uuids \in FreshUuids(NeedIds(<<record>>)) : Upsert(c, record, uuids)
    \/ \E c \in CollNames, key \in AllIds : Get(c, key)
    \/ /\ Idle
       /\ \E c \in CollNames, keys \in SeqsUpTo(AllIds, MaxKeys) : GetBatch(c, keys)
    \/ \E c \in CollNames, key \in AllIds : Remove(c, key)
    \/ /\ Idle
       /\ \E c \in CollNames, keys \in SeqsUpTo(AllIds, MaxKeys) : RemoveBatch(c, keys)
    \/ \E c \in CollNames, e \in Embeddings, limit \in 1..MaxLimit :
           GetNearestMatches(c, e, limit)
    \/ \E c \in CollNames, e \in Embeddings : GetNearestMatch(c, e)
    \/ Return

Spec == Init /\ [][Next]_vars

----------------------------------------------------------------------------
\* Properties of the data operations, stated on the call `last` records.

LastColl == database[last.collection]

IdsOf(docs) == {d[SEARCH_FIELD_ID] : d \in docs}

DocOf(docs, id) == CHOOSE d \in docs : d[SEARCH_FIELD_ID] = id

RecordIds(records) == {records[i]._id : i \in DOMAIN records}

\* ceil(n / b)
CeilDiv(n, b) == (n + b - 1) \div b

InsertManyCalls(calls) == SelectSeq(calls, LAMBDA x : x.call = "insert_many")

\* C1: Get(collection, Upsert(collection, record)) returns the input record,
\* with the id Upsert generated and returned when the input had none,
\* whether or not a document with the record's id was already stored.
C1_UpsertGetRoundTrip ==
    (last.op = "upsert" /\ last.err = "") =>
        get_async(LastColl, last.ret, store._embedding_key)
            = << [last.record EXCEPT !._id = IF @ = None THEN last.ret ELSE @] >>

\* C2: UpsertBatch of N records with N distinct ids, none of them stored,
\* by a store of batch size B issues exactly ceil(N/B) insert_many calls and
\* returns exactly N ids.
C2_BulkInsertCalls ==
    (/\ last.op = "upsert_batch"
     /\ Cardinality(RecordIds(last.assigned)) = Len(last.assigned)
     /\ RecordIds(last.assigned) \cap IdsOf(last.pre.docs) = {})
    => /\ Len(InsertManyCalls(last.calls)) = CeilDiv(Len(last.records), store.batch_size)
       /\ Len(last.ret) = Len(last.records)

\* The last record of the batch with the given id.
LastWithId(records, id) ==
    records[CHOOSE i \in DOMAIN records :
                /\ records[i]._id = id
                /\ \A j \in DOMAIN records : records[j]._id = id => j <= i]

C5_GetBatchExisting ==
    last.op = "get_batch" =>
        LET found == SelectSeq(last.keys, LAMBDA k : k \in IdsOf(last.pre.docs))
        IN /\ last.ret = [i \in 1..Len(found) |->
                             dict_to_memory_record(DocOf(last.pre.docs, found[i]),
                                                   store._embedding_key)]
           /\ Len(last.ret) <= Len(last.keys)
           /\ LastColl = last.pre

C5_Witness ==
    /\ last.op = "get_batch"
    /\ Len(last.keys) = 2
    /\ last.keys[1] \notin IdsOf(last.pre.docs)
    /\ last.keys[2] \in IdsOf(last.pre.docs)
    /\ Len(last.ret) = 1
    /\ last.ret[1]._id = last.keys[2]

\* C6: Remove deletes the document whose id is the key, at most one, and
\* leaves every other document unchanged; a key that is not stored changes
\* nothing.  RemoveBatch does this for each of its keys, stored or not.
C6_RemoveFrame ==
    (last.op \in {"remove", "remove_batch"}) =>
        LET keys == {last.keys[i] : i \in DOMAIN last.keys}
        IN /\ LastColl.docs = {d \in last.pre.docs : d[SEARCH_FIELD_ID] \notin keys}
           /\ LastColl.exists = last.pre.exists
           /\ LastColl.indexes = last.pre.indexes
           /\ last.op = "remove" => Cardinality(last.pre.docs \ LastColl.docs) <= 1

C6_Witness ==
    /\ last.op = "remove_batch"
    /\ Len(last.keys) = 2
    /\ last.keys[1] \notin IdsOf(last.pre.docs)
    /\ last.keys[2] \in IdsOf(last.pre.docs)
    /\ Cardinality(last.pre.docs) = 2
    /\ Cardinality(LastColl.docs) = 1

\* C9: GetNearestMatches returns at most `limit` records, the documents the
\* database's search returned in the order it returned them (nearest first);
\* GetNearestMatch returns the first record of GetNearestMatches with
\* limit = 1, and nothing when the collection has no documents.
C9_NearestMatches ==
    /\ last.op = "get_nearest_matches" =>
           LET found == aggregate(last.pre, [vector |-> last.embedding,
                                             path |-> store._embedding_key,
                                             k |-> last.limit])
           IN /\ Len(last.ret) <= last.limit
              /\ last.ret = [i \in 1..Len(found) |->
                                dict_to_memory_record(found[i], store._embedding_key)]
              /\ \A i, j \in 1..Len(last.ret) :
                     i < j => Distance(last.ret[i]._embedding, last.embedding)
                                  <= Distance(last.ret[j]._embedding, last.embedding)
    /\ last.op = "get_nearest_match" =>
           LET matches == get_nearest_matches_async(last.pre, store, last.collection,
                                                    last.embedding, 1)
           IN /\ last.pre.docs = {} => last.ret = <<>>
              /\ last.pre.docs # {} => last.ret = <<matches[1]>>
              /\ \A d \in last.pre.docs, i \in 1..Len(last.ret) :
                     Distance(last.ret[i]._embedding, last.embedding)
                         <= Distance(d[store._embedding_key], last.embedding)

C9_Witness ==
    /\ last.op = "get_nearest_matches"
    /\ last.limit = 2
    /\ Cardinality(last.pre.docs) = 3
    /\ Len(last.ret) = 2
    /\ Distance(last.ret[1]._embedding, last.embedding)
           < Distance(last.ret[2]._embedding, last.embedding)

----------------------------------------------------------------------------
\* SpecAdmin: construction, closing and the administration of collections,
\* on a database that may already hold the collection, with or without a
\* search index.

ExternalIndex(name) ==
    [name |-> name, key |-> "embedding", kind |-> "external", numLists |-> DEFAULT_NUM_LISTS,
     similarity |-> "COS", dimensions |-> 1]

InitialCollections ==
    {NoCollection, [NoCollection EXCEPT !.exists = TRUE]}
        \cup {[exists |-> TRUE, indexes |-> {ExternalIndex(n)}, docs |-> {}] : n \in IndexNames}

\* The arguments SpecAdmin constructs stores with: batch_size is left at
\* its default (line 58).
AdminArgs == {a \in ConstructorArgs : a.batch_size = DEFAULT_INSERT_BATCH_SIZE}

Construct(args) ==
    /\ Idle
    /\ LET r == __init__(database, args)
       IN /\ store' = r.self
          /\ last' = [op |-> "construct", args |-> args, pre |-> database,
                      err |-> r.err, calls |-> r.calls]
    /\ UNCHANGED <<database, callers>>

Close ==
    /\ Idle /\ store.constructed
    /\ store' = close_async(store)
    /\ last' = [op |-> "close"]
    /\ UNCHANGED <<database, callers>>

CreateCollection(c, similarity, num_lists) ==
    /\ Open /\ Idle
    /\ database' = create_collection_async(database, store, c, similarity, num_lists)
    /\ last' = [op |-> "create_collection", collection |-> c, similarity |-> similarity,
                num_lists |-> num_lists, pre |-> database]
    /\ UNCHANGED <<store, callers>>

DeleteCollection(c) ==
    /\ Open /\ Idle
    /\ database' = delete_collection_async(database, c)
    /\ last' = [op |-> "delete_collection", collection |-> c, pre |-> database]
    /\ UNCHANGED <<store, callers>>

GetCollections ==
    /\ Open /\ Idle
    /\ last' = [op |-> "get_collections", ret |-> get_collections_async(database)]
    /\ UNCHANGED <<store, database, callers>>

DoesCollectionExist(c) ==
    /\ Open /\ Idle
    /\ last' = [op |-> "does_collection_exist", collection |-> c,
                ret |-> does_collection_exist_async(database, c)]
    /\ UNCHANGED <<store, database, callers>>

DoesIndexExist(c, index_name) ==
    /\ Open /\ Idle
    /\ last' = [op |-> "does_index_exist", collection |-> c, index_name |-> index_name,
                ret |-> does_index_exist_async(database, c, index_name)]
    /\ UNCHANGED <<store, database, callers>>

InitAdmin ==
    /\ database \in [CollNames -> InitialCollections]
    /\ store = ClassDefaults
    /\ last = [op |-> "idle"]
    /\ callers = [t \in Callers |-> NoCall]

NextAdmin ==
    \/ /\ Idle
       /\ \E args \in AdminArgs : Construct(args)
    \/ Close
    \/ \E c \in CollNames, similarity \in Similarities :
           CreateCollection(c, similarity, DEFAULT_NUM_LISTS)
    \/ \E c \in CollNames : DeleteCollection(c)
    \/ GetCollections
    \/ \E c \in CollNames : DoesCollectionExist(c)
    \/ \E c \in CollNames, index_name \in IndexNames : DoesIndexExist(c, index_name)
    \/ Return

SpecAdmin == InitAdmin /\ [][NextAdmin]_vars

\* The collection holds a search index of the given name.
HasIndex(db, collection_name, index_name) ==
    \E ix \in db[collection_name].indexes : ix.name = index_name

\* Arguments that pass every check the configuration asks for.
WellFormed(args) ==
    /\ args.vector_size > 0
    /\ args.embedding_key \notin {None, ""}
    /\ args.database_name \notin {None, ""}
    /\ args.collection_name \notin {None, ""}

\* C3: constructing a store with valid arguments on a collection that lacks
\* the configured search index fails with the missing-index error, opens no
\* connection, keeps no collection handle and issues no database call; no
\* construction succeeds while that index is absent.
C3_MissingIndexFailsClosed ==
    /\ (/\ last.op = "construct"
        /\ WellFormed(last.args)
        /\ ~HasIndex(last.pre, last.args.collection_name, last.args.index_name))
       => /\ last.err = "ValueError: Index does not exist"
          /\ store._mongodb_client = None
          /\ store._collection = None
          /\ last.calls = <<>>
    /\ (last.op = "construct" /\ store.constructed)
       => HasIndex(last.pre, store._collection, store._index_name)

\* C7 as stated: Construct fails with a configuration error, before any
\* database call and with no attribute set, whenever vectorSize <= 0 or
\* embeddingKey, databaseName or collectionName is empty or missing.
C7_EmptyOrMissingRejected ==
    (last.op = "construct" /\ ~WellFormed(last.args))
    => /\ last.err \in {"ValueError: vector_size", "ValueError: embedding_key",
                        "ValueError: database_name", "ValueError: collection_name"}
       /\ store = ClassDefaults
       /\ last.calls = <<>>

\* C7, amended: Construct fails with a configuration error, before any
\* database call and with no attribute set, whenever vectorSize <= 0 or
\* embeddingKey, databaseName or collectionName is missing (None); an empty
\* embeddingKey passes these checks and the store is constructed.
C7_MissingRejected ==
    /\ (/\ last.op = "construct"
        /\ \/ last.args.vector_size <= 0
           \/ None \in {last.args.embedding_key, last.args.database_name,
                        last.args.collection_name})
       => /\ last.err \in {"ValueError: vector_size", "ValueError: embedding_key",
                           "ValueError: database_name", "ValueError: collection_name"}
          /\ store = ClassDefaults
          /\ last.calls = <<>>
    /\ (last.op = "construct" /\ last.args.vector_size > 0
        /\ last.args.embedding_key = "" /\ last.args.database_name = "db"
        /\ last.args.collection_name \in CollNames)
       => last.err = "" /\ store.constructed

C7_Witness ==
    /\ last.op = "construct"
    /\ last.args.vector_size > 0
    /\ last.args.embedding_key = "embedding"
    /\ last.args.database_name = "db"
    /\ last.args.collection_name = None
    /\ last.err = "ValueError: collection_name"
    /\ store = ClassDefaults

\* C8 as stated: CreateCollection creates the collection when it is absent
\* and changes nothing when it exists; in the Cosmos dialect the collection
\* then carries the vector index under the store's configured index name
\* with the store's vectorSize; in the Atlas dialect a created collection is
\* bare.
C8_CreateCollectionIndexed ==
    last.op = "create_collection" =>
        LET pre == last.pre[last.collection]
            post == database[last.collection]
        IN /\ post.exists
           /\ pre.exists => database = last.pre
           /\ store._api_type = "azuremongodb" =>
                  \E ix \in post.indexes : /\ ix.name = store._index_name
                                           /\ ix.dimensions = store._vector_size
           /\ (store._api_type = "mongodbatlas" /\ ~pre.exists) =>
                  post = [exists |-> TRUE, indexes |-> {}, docs |-> {}]

\* C8, amended: CreateCollection creates the collection when it is absent
\* and changes nothing when it exists; in the Cosmos dialect an absent
\* collection is created with one vector index, named "vectorSearchIndex"
\* whatever index name the store was configured with, of the store's
\* vectorSize and the call's similarity and number of lists; a collection
\* that existed keeps the indexes it had, possibly none; in the Atlas
\* dialect a created collection is bare.
C8_CreateCollection ==
    last.op = "create_collection" =>
        LET pre == last.pre[last.collection]
            post == database[last.collection]
        IN /\ post.exists
           /\ pre.exists => database = last.pre
           /\ \A c \in CollNames \ {last.collection} : database[c] = last.pre[c]
           /\ (store._api_type = "azuremongodb" /\ ~pre.exists) =>
                  post = [exists |-> TRUE, docs |-> {},
                          indexes |-> {[name |-> "vectorSearchIndex",
                                        key |-> store._embedding_key,
                                        kind |-> "vector-ivf",
                                        numLists |-> last.num_lists,
                                        similarity |-> last.similarity,
                                        dimensions |-> store._vector_size]}]
           /\ (store._api_type = "mongodbatlas" /\ ~pre.exists) =>
                  post = [exists |-> TRUE, indexes |-> {}, docs |-> {}]

C8_Witness ==
    /\ last.op = "create_collection"
    /\ store._api_type = "azuremongodb"
    /\ store._index_name = "myIndex"
    /\ ~last.pre[last.collection].exists
    /\ database[last.collection].exists
    /\ \E ix \in database[last.collection].indexes : ix.name = "vectorSearchIndex"

----------------------------------------------------------------------------
\* SpecConc: two callers run upsert_batch_async on the same collection, one
\* driver call at a time.  A caller's locals are the record st of the
\* sequential call (its coll field unused: the collection is the shared one),
\* the index i of the record it is at and the result of its find_one.

\* Longest list of records a concurrent caller upserts.
MaxConcBatch == 2

\* The records of the concurrent callers carry ids.
ConcRecords == {r \in MemoryRecords : r._id # None}

ConcBatches == SeqsUpTo(ConcRecords, MaxConcBatch) \ {<<>>}

Local(st) == [st EXCEPT !.coll = NoCollection]

Shared(t) == [callers[t].st EXCEPT !.coll = database[callers[t].collection]]

\* The step after record i is dealt with: the next record, the final flush
\* of lines 260-262, or the end of the call.
After(st, i) ==
    IF st.err # "" THEN "done"
    ELSE IF i < Len(st.records) THEN "find"
    ELSE IF st.mongodb_records # <<>> THEN "flush"
    ELSE "done"

\* The call starts (lines 228-230).
Start(t, c, records) ==
    /\ Open /\ last.op = "idle"
    /\ callers[t].pc = "idle"
    /\ callers' = [callers EXCEPT ![t] =
                      [pc |-> "find", collection |-> c, i |-> 1, existing |-> FALSE,
                       st |-> Local(UpsertStart(NoCollection, records))]]
    /\ UNCHANGED <<store, database, last>>

\* lines 232-235: the id is assigned and find_one is called.
Find(t) ==
    /\ callers[t].pc = "find"
    /\ LET st1 == AssignId(Shared(t), callers[t].i, <<>>)
           record == st1.records[callers[t].i]
       IN callers' = [callers EXCEPT
                         ![t].existing = find_one(st1.coll, record._id) # <<>>,
                         ![t].st = Local(FindExisting(st1, record)),
                         ![t].pc = "write"]
    /\ UNCHANGED <<store, database, last>>

\* lines 237-258: update_one for a document found; else the record is
\* buffered and insert_many is called when the buffer is full.
Write(t) ==
    /\ callers[t].pc = "write"
    /\ LET i == callers[t].i
           record == callers[t].st.records[i]
           st1 == IF callers[t].existing
                  THEN UpdateExisting(Shared(t), record, store._embedding_key)
                  ELSE BufferInsert(Shared(t), record, store._embedding_key)
       IN /\ database' = [database EXCEPT ![callers[t].collection] = st1.coll]
          /\ callers' = [callers EXCEPT ![t].st = Local(st1),
                                        ![t].i = i + 1,
                                        ![t].pc = After(st1, i)]
    /\ UNCHANGED <<store, last>>

\* lines 260-262: the records still buffered are inserted.
Flush(t) ==
    /\ callers[t].pc = "flush"
    /\ LET st1 == FlushBuffer(Shared(t))
       IN /\ database' = [database EXCEPT ![callers[t].collection] = st1.coll]
          /\ callers' = [callers EXCEPT ![t].st = Local(st1), ![t].pc = "done"]
    /\ UNCHANGED <<store, last>>

\* line 264, or the exception of insert_many leaving the call.
Finish(t) ==
    /\ callers[t].pc = "done"
    /\ callers' = [callers EXCEPT ![t] = NoCall]
    /\ UNCHANGED <<store, database, last>>

NextConc ==
    \/ \E t \in Callers, c \in CollNames, records \in ConcBatches : Start(t, c, records)
    \/ \E t \in Callers : Find(t)
    \/ \E t \in Callers : Write(t)
    \/ \E t \in Callers : Flush(t)
    \/ \E t \in Callers : Finish(t)

\* The store of the concurrent callers is constructed with the defaults.
InitConc ==
    /\ database = [c \in CollNames |-> NoCollection]
    /\ \E a \in ValidArgs :
           /\ a.api_type = "azuremongodb" /\ a.index_name = "vectorSearchIndex"
           /\ a.batch_size = DEFAULT_INSERT_BATCH_SIZE
           /\ store = __init__(database, a).self
    /\ last = [op |-> "idle"]
    /\ callers = [t \in Callers |-> NoCall]

SpecConc == InitConc /\ [][NextConc]_vars

\* C10: a collection never holds two documents with the same id, and no
\* insert_many call is issued with an id that is stored or that occurs twice
\* in the call (the database answers such a call with BulkWriteError), also
\* for a batch that lists a new id twice and for two callers' batches
\* interleaved at the driver calls.
C10_UniqueIdsNoDuplicateInsert ==
    /\ \A c \in CollNames :
           \A d1, d2 \in database[c].docs :
               d1[SEARCH_FIELD_ID] = d2[SEARCH_FIELD_ID] => d1 = d2
    /\ \A t \in Callers :
           callers[t].pc # "idle" => callers[t].st.err # "BulkWriteError"
    /\ last.op \in {"upsert", "upsert_batch"} => last.err # "BulkWriteError"

\* The interleaving alone: two callers whose batches each list their ids
\* once never see insert_many refuse a document.
C10_InterleavedDistinctBatches ==
    \A t \in Callers :
        (/\ callers[t].pc # "idle"
         /\ Cardinality(RecordIds(callers[t].st.records)) = Len(callers[t].st.records))
        => callers[t].st.err # "BulkWriteError"

====
